---------------------------- MODULE Spec2Model ----------------------------
(***************************************************************************)
(* A model of hakyll2zola (src/main.rs): the cursor-based Stream scanner,  *)
(* the Metadata formatter and the main pipeline that joins them.           *)
(*                                                                         *)
(* Text is modelled as Rust stores it: a sequence of UTF-8 bytes.  An      *)
(* ASCII byte is written as its one-character string ("-", "a", "\n"); a   *)
(* byte >= 0x80 is written as its two-digit hex string ("C3", "A9": the    *)
(* two bytes of U+00E9).  Offsets are byte offsets, counted from 0.        *)
(***************************************************************************)
EXTENDS Integers, Sequences, FiniteSets, TLC

VARIABLES content, offset, last,
          pc, args, metadata, buf, dirs, file, status, printed,
          fmtIn, fmtOut

vars == <<content, offset, last, pc, args, metadata, buf, dirs, file,
          status, printed, fmtIn, fmtOut>>

streamVars == <<content, offset, last>>
mainVars == <<pc, args, metadata, buf, dirs, file, status, printed>>
fmtVars == <<fmtIn, fmtOut>>

(***************************************************************************)
(* Bounds of the model.                                                    *)
(***************************************************************************)
MaxBufLen == 5
MaxArgLen == 2
MaxTagLen == 5

(***************************************************************************)
(* UTF-8 text.                                                             *)
(***************************************************************************)
\* Bytes 0x80..0xBF: they continue a character and never start one.
ContBytes == {"A9"}

\* Bytes that start a two-byte character.
LeadBytes == {"C3"}

\* The invariant of Rust's String / &str: the bytes are well-formed UTF-8.
ValidUtf8(s) ==
    \A i \in 1..Len(s) :
        /\ s[i] \in LeadBytes => (i < Len(s) /\ s[i + 1] \in ContBytes)
        /\ s[i] \in ContBytes => (i > 1 /\ s[i - 1] \in LeadBytes)

\* str::is_char_boundary(i): 0 and len are boundaries, an index past the end
\* is not, and inside the string the byte at i must not be a continuation byte.
IsCharBoundary(s, i) ==
    \/ i = 0
    \/ i = Len(s)
    \/ (i > 0 /\ i < Len(s) /\ s[i + 1] \notin ContBytes)

None == [some |-> FALSE, val |-> <<>>]
Some(x) == [some |-> TRUE, val |-> x]

\* str::get(from..to): None unless from <= to <= len and both are boundaries.
Get(s, from, to) ==
    IF from <= to /\ to <= Len(s) /\ IsCharBoundary(s, from) /\ IsCharBoundary(s, to)
    THEN Some(SubSeq(s, from + 1, to))
    ELSE None

RECURSIVE FindFrom(_, _, _)
\* The leftmost byte index >= i at which pat occurs in s, or -1.
FindFrom(s, pat, i) ==
    IF i + Len(pat) > Len(s) THEN -1
    ELSE IF SubSeq(s, i + 1, i + Len(pat)) = pat THEN i
    ELSE FindFrom(s, pat, i + 1)

\* str::find(pat): the byte index of the first match, or -1 for None.
Find(s, pat) == FindFrom(s, pat, 0)

(***************************************************************************)
(* ParseError and ParseResult.                                             *)
(***************************************************************************)
NoError == [kind |-> "", fmt |-> "", args |-> <<>>]

\* ParseError::BadSyntax(format!(fmt, args...))
BadSyntax(f, a) == [kind |-> "BadSyntax", fmt |-> f, args |-> a]

\* ParseError::WrongYaml(e)
WrongYaml(why) == [kind |-> "WrongYaml", fmt |-> why, args |-> <<>>]

NoMetadata == [title |-> <<>>, date |-> None, tags |-> None, alias |-> None]

\* A result of a Stream method: tag is "Ok", "Err" or "Panic" (an unwrap that
\* failed); val is the returned slice, meta the returned Metadata, offset the
\* cursor the call leaves behind.
Ok(v, off) == [tag |-> "Ok", val |-> v, meta |-> NoMetadata, err |-> NoError, offset |-> off]
OkMeta(m, off) == [tag |-> "Ok", val |-> <<>>, meta |-> m, err |-> NoError, offset |-> off]
Err(e, off) == [tag |-> "Err", val |-> <<>>, meta |-> NoMetadata, err |-> e, offset |-> off]
Panic(off) == [tag |-> "Panic", val |-> <<>>, meta |-> NoMetadata, err |-> NoError, offset |-> off]

(***************************************************************************)
(* Stream.                                                                 *)
(***************************************************************************)
\* The literal "---" of read_header.
Marker == <<"-", "-", "-">>

MsgMismatch == "expected {:?} but got {:?}"
MsgEndOfInput == "unexpected end of input to read {:?}"
MsgNotFound == "expected \"{:?}\" but not found"

\* Stream::current: self.content.get(self.offset..).unwrap()
Current(c, off) ==
    LET r == Get(c, off, Len(c))
    IN  IF r.some THEN Ok(r.val, off) ELSE Panic(off)

ReadStringAdvanceOnMismatch(c, off, s) ==
    LET cur == Current(c, off)
    IN  IF cur.tag = "Panic" THEN Panic(off)
        ELSE LET sub == Get(cur.val, 0, Len(s))
             IN  IF sub.some
                 THEN IF s = sub.val
                      THEN Ok(sub.val, off + Len(s))
                      ELSE Err(BadSyntax(MsgMismatch, <<s, sub.val>>), off + 1)
                 ELSE Err(BadSyntax(MsgEndOfInput, <<s>>), off)

\* Stream::read_string
ReadString(c, off, s) ==
    LET cur == Current(c, off)
    IN  IF cur.tag = "Panic" THEN Panic(off)
        ELSE LET sub == Get(cur.val, 0, Len(s))
             IN  IF sub.some
                 THEN IF s = sub.val
                      THEN Ok(sub.val, off + Len(s))
                      ELSE Err(BadSyntax(MsgMismatch, <<s, sub.val>>), off)
                 ELSE Err(BadSyntax(MsgEndOfInput, <<s>>), off)

ReadUntilConsumesDelimiter(c, off, s) ==
    LET cur == Current(c, off)
    IN  IF cur.tag = "Panic" THEN Panic(off)
        ELSE LET idx == Find(cur.val, s)
             IN  IF idx >= 0
                 THEN LET sliced == Get(cur.val, 0, idx)
                      IN  IF sliced.some THEN Ok(sliced.val, off + idx + Len(s))
                          ELSE Panic(off)
                 ELSE Err(BadSyntax(MsgNotFound, <<s>>), off)

\* Stream::read_until
ReadUntil(c, off, s) ==
    LET cur == Current(c, off)
    IN  IF cur.tag = "Panic" THEN Panic(off)
        ELSE LET idx == Find(cur.val, s)
             IN  IF idx >= 0
                 THEN LET sliced == Get(cur.val, 0, idx)
                      IN  IF sliced.some THEN Ok(sliced.val, off + idx)
                          ELSE Panic(off)
                 ELSE Err(BadSyntax(MsgNotFound, <<s>>), off)

(***************************************************************************)
(* The metadata decoder: serde_yaml::from_str::<Metadata>.  serde_yaml is  *)
(* a dependency, not code of this repository; it is modelled on the YAML   *)
(* the model's documents hold: a block mapping of one-line "key: value"    *)
(* entries with plain scalars, written at column 0.  The derive on         *)
(* Metadata decides the rest: title is required, date, tags and alias are  *)
(* optional, unknown keys are ignored and a repeated key is an error.      *)
(***************************************************************************)
RECURSIVE Split(_, _)
\* str::split(sep) for a non-empty sep: the pieces between the
\* non-overlapping matches of sep, found left to right.
Split(s, sep) ==
    LET i == Find(s, sep)
    IN  IF i < 0 THEN <<s>>
        ELSE <<SubSeq(s, 1, i)>> \o Split(SubSeq(s, i + Len(sep) + 1, Len(s)), sep)

RECURSIVE TrimStart(_)
TrimStart(s) == IF s # <<>> /\ Head(s) = " " THEN TrimStart(Tail(s)) ELSE s

RECURSIVE TrimEnd(_)
TrimEnd(s) ==
    IF s # <<>> /\ s[Len(s)] = " " THEN TrimEnd(SubSeq(s, 1, Len(s) - 1)) ELSE s

\* A plain scalar carries no leading or trailing blanks.
Trim(s) == TrimEnd(TrimStart(s))

KeyTitle == <<"t", "i", "t", "l", "e">>
KeyDate == <<"d", "a", "t", "e">>
KeyTags == <<"t", "a", "g", "s">>
KeyAlias == <<"a", "l", "i", "a", "s">>

\* Where the key of a mapping line ends: at the first ": ", or at a ":"
\* that ends the line; -1 when the line is no mapping entry.
KeyEnd(line) ==
    LET i == Find(line, <<":", " ">>)
    IN  IF i >= 0 THEN i
        ELSE IF line # <<>> /\ line[Len(line)] = ":" THEN Len(line) - 1
        ELSE -1

YamlLines(raw) == SelectSeq(Split(raw, <<"\n">>), LAMBDA l : Trim(l) # <<>>)

YamlKey(line) == SubSeq(line, 1, KeyEnd(line))
YamlValue(line) == Trim(SubSeq(line, KeyEnd(line) + 2, Len(line)))

\* The value of an Option<String> field: absent or null is None.
YamlOption(lines, key) ==
    IF \E i \in 1..Len(lines) : YamlKey(lines[i]) = key /\ YamlValue(lines[i]) # <<>>
    THEN Some(YamlValue(lines[CHOOSE i \in 1..Len(lines) : YamlKey(lines[i]) = key]))
    ELSE None

\* The outcomes of decoding raw: records [ok, meta, err].  A title whose
\* value is empty (a YAML null) is an error in some serde_yaml releases and
\* the string "~" in others, so both outcomes are possible.
Decode(raw) ==
    LET lines == YamlLines(raw)
        bad(e) == {[ok |-> FALSE, meta |-> NoMetadata, err |-> WrongYaml(e)]}
        good(t) == {[ok |-> TRUE,
                     meta |-> [title |-> t,
                               date |-> YamlOption(lines, KeyDate),
                               tags |-> YamlOption(lines, KeyTags),
                               alias |-> YamlOption(lines, KeyAlias)],
                     err |-> NoError]}
    IN  IF lines = <<>> THEN bad("end of stream")
        ELSE IF \E i \in 1..Len(lines) : KeyEnd(lines[i]) < 1 \/ Head(lines[i]) = " "
        THEN bad("not a mapping")
        ELSE IF \E i, j \in 1..Len(lines) : i # j /\ YamlKey(lines[i]) = YamlKey(lines[j])
        THEN bad("duplicate field")
        ELSE IF \A i \in 1..Len(lines) : YamlKey(lines[i]) # KeyTitle
        THEN bad("missing field title")
        ELSE LET t == YamlValue(lines[CHOOSE i \in 1..Len(lines) :
                                          YamlKey(lines[i]) = KeyTitle])
             IN  IF t = <<>> THEN bad("invalid type: unit value") \cup good(<<"~">>)
                 ELSE good(t)

ReadHeaderWithoutStartMark(c, off) ==
    LET r2 == ReadUntil(c, off, Marker)
    IN  IF r2.tag # "Ok" THEN {r2}
        ELSE LET r3 == ReadString(c, r2.offset, Marker)
             IN  IF r3.tag # "Ok" THEN {r3}
                 ELSE {IF d.ok THEN OkMeta(d.meta, r3.offset) ELSE Err(d.err, r3.offset) :
                          d \in Decode(r2.val)}

\* Stream::read_header: the set of its possible results.  Each ? returns
\* the failing step's error at once, with the cursor where that step left it.
ReadHeader(c, off) ==
    LET r1 == ReadString(c, off, Marker)
    IN  IF r1.tag # "Ok" THEN {r1}
        ELSE LET r2 == ReadUntil(c, r1.offset, Marker)
             IN  IF r2.tag # "Ok" THEN {r2}
                 ELSE LET r3 == ReadString(c, r2.offset, Marker)
                      IN  IF r3.tag # "Ok" THEN {r3}
                          ELSE {IF d.ok THEN OkMeta(d.meta, r3.offset)
                                        ELSE Err(d.err, r3.offset) :
                                   d \in Decode(r2.val)}

(***************************************************************************)
(* The formatter.                                                          *)
(***************************************************************************)
RECURSIVE Join(_, _)
\* [String]::join(sep)
Join(strs, sep) ==
    IF strs = <<>> THEN <<>>
    ELSE IF Len(strs) = 1 THEN strs[1]
    ELSE strs[1] \o sep \o Join(Tail(strs), sep)

\* format!("\"{}\"", t)
Quoted(t) == <<"\"">> \o t \o <<"\"">>

PrintListTomlCommaSpace(elements) ==
    <<"[">> \o Join([i \in 1..Len(elements) |-> Quoted(elements[i])], <<",", " ">>) \o <<"]">>

\* print_list_toml
PrintListToml(elements) ==
    <<"[">> \o Join([i \in 1..Len(elements) |-> Quoted(elements[i])], <<",">>) \o <<"]">>

TagVecSplitOnComma(tags) == Split(tags, <<",">>)

\* The tag_vec of print_tags_as_toml: tags.split(", "), collected.
TagVec(tags) == Split(tags, <<",", " ">>)

\* print_tags_as_toml
PrintTagsAsToml(tags) == PrintListToml(TagVec(tags))

Opening == <<"+", "+", "+", "\n">>
Closing == <<"+", "+", "+">>
Taxonomies == <<"[", "t", "a", "x", "o", "n", "o", "m", "i", "e", "s", "]", "\n">>

\* format!("title = \"{}\"\n", title)
TitleLine(title) == <<"t", "i", "t", "l", "e", " ", "=", " ", "\"">> \o title \o <<"\"", "\n">>

\* format!("date = {}\n", date)
DateLine(date) == <<"d", "a", "t", "e", " ", "=", " ">> \o date \o <<"\n">>

\* format!("aliases = [\"{}\"]\n", alias)
AliasLine(alias) == <<"a", "l", "i", "a", "s", "e", "s", " ", "=", " ", "[", "\"">> \o alias \o <<"\"", "]", "\n">>

\* format!("tags = {}\n", print_tags_as_toml(tags))
TagsLine(tags) == <<"t", "a", "g", "s", " ", "=", " ">> \o PrintTagsAsToml(tags) \o <<"\n">>

\* Metadata::format_header
FormatHeader(m) ==
    Opening
    \o TitleLine(m.title)
    \o (IF m.date.some THEN DateLine(m.date.val) ELSE <<>>)
    \o (IF m.alias.some THEN AliasLine(m.alias.val) ELSE <<>>)
    \o (IF m.tags.some THEN Taxonomies \o TagsLine(m.tags.val) ELSE <<>>)
    \o Closing

(***************************************************************************)
(* Inputs.                                                                 *)
(***************************************************************************)
Alphabet == {"-", "a", "C3", "A9"}

RECURSIVE ByteStrings(_)
ByteStrings(n) ==
    IF n = 0 THEN {<<>>}
    ELSE LET shorter == ByteStrings(n - 1)
         IN  shorter \cup {Append(s, b) : s \in shorter, b \in Alphabet}

\* Every well-formed string of at most n bytes over Alphabet.
Utf8Strings(n) == {s \in ByteStrings(n) : ValidUtf8(s)}

\* The strings of the unit tests, with the two-byte U+00E9 as the title.
TestDocs ==
    { Marker \o <<"\n", "t", "i", "t", "l", "e", ":", " ", "C3", "A9">>,
      <<"\n", "t", "i", "t", "l", "e", ":", " ", "C3", "A9", "\n">> \o Marker \o <<"\n">>,
      Marker \o <<"\n", "t", "i", "t", "l", "e", ":", " ", "C3", "A9", "\n">> \o Marker }

\* Front-matter blocks: title alone (ASCII, multi-byte), with date, with
\* tags, with both, without title, with the marker inside the title, empty,
\* and with the title last.
Blocks ==
    { <<"t", "i", "t", "l", "e", ":", " ", "a">>,
      <<"t", "i", "t", "l", "e", ":", " ", "C3", "A9">>,
      <<"t", "i", "t", "l", "e", ":", " ", "a", "\n", "d", "a", "t", "e", ":", " ", "2", "0", "2", "0", "-", "0", "2", "-", "0", "1">>,
      <<"t", "i", "t", "l", "e", ":", " ", "a", "\n", "t", "a", "g", "s", ":", " ", "x", ",", " ", "y">>,
      <<"t", "i", "t", "l", "e", ":", " ", "C3", "A9", "\n", "d", "a", "t", "e", ":", " ", "2", "0", "2", "0", "-", "0", "2", "-", "0", "1", "\n", "t", "a", "g", "s", ":", " ", "x", ",", " ", " ", "y">>,
      <<"d", "a", "t", "e", ":", " ", "2", "0", "2", "0", "-", "0", "2", "-", "0", "1">>,
      <<"t", "i", "t", "l", "e", ":", " ", "a", "-", "-", "-", "b">>,
      <<>>,
      <<"t", "a", "g", "s", ":", " ", "x", "\n", "t", "i", "t", "l", "e", ":", " ", "a">> }

Bodies ==
    { <<>>, <<"\n", "b">>, <<"b">>, <<"\n", "-", "-", "-", "\n", "b">>, <<"C3", "A9">> }

\* The document "---\n<block>\n---<body>".
Wrap(block, body) == Marker \o <<"\n">> \o block \o <<"\n">> \o Marker \o body

\* The files main is run on: well-formed documents, documents without the
\* opening marker, documents without the closing marker, an empty block
\* written as six dashes, and every short string.
Docs ==
    {Wrap(b, d) : b \in Blocks, d \in Bodies}
    \cup {b \o <<"\n">> \o Marker \o d : b \in Blocks, d \in Bodies}
    \cup {Marker \o <<"\n">> \o b : b \in Blocks}
    \cup {Marker \o Marker \o d : d \in Bodies}
    \cup Utf8Strings(MaxBufLen)

InputPaths == {<<"a", ".", "m", "d">>, <<"d", "/", "b", ".", "x", ".", "m", "d">>}
OutputPaths == {<<"a", ".", "m", "d">>, <<"o", "u", "t", "/", "a", ".", "m", "d">>, <<>>}
AliasPaths == {<<>>, <<"o", "l", "d">>, <<"o", "l", "d", "/">>}

StreamBufs == Utf8Strings(MaxBufLen) \cup TestDocs
StreamArgs == Utf8Strings(MaxArgLen) \cup {Marker}

IdleMain ==
    /\ pc = "idle"
    /\ args = [input |-> <<>>, output |-> <<>>, alias |-> <<>>]
    /\ metadata = NoMetadata
    /\ buf = <<>>
    /\ dirs = {}
    /\ file = None
    /\ status = "running"
    /\ printed = NoError

IdleFmt ==
    /\ fmtIn = NoMetadata
    /\ fmtOut = [op |-> "none", tags |-> <<>>, text |-> <<>>]

(***************************************************************************)
(* The Stream specification: one Stream over any buffer, and its methods   *)
(* called in any order with any arguments.  `last` records the last call:  *)
(* its name, argument, the cursor before it and its result.                *)
(***************************************************************************)
\* Stream::new
InitStream ==
    /\ content \in StreamBufs
    /\ offset = 0
    /\ last = [op |-> "new", arg |-> <<>>, pre |-> 0, res |-> Ok(<<>>, 0)]
    /\ IdleMain
    /\ IdleFmt

\* The effect of a call on the Stream and on the record of the last call.
Returns(op, arg, res) ==
    /\ offset' = res.offset
    /\ last' = [op |-> op, arg |-> arg, pre |-> offset, res |-> res]
    /\ UNCHANGED <<content, mainVars, fmtVars>>

CallCurrent ==
    /\ last.res.tag # "Panic"
    /\ Returns("current", <<>>, Current(content, offset))

CallReadString ==
    /\ last.res.tag # "Panic"
    /\ \E s \in StreamArgs : Returns("read_string", s, ReadString(content, offset, s))

CallReadUntil ==
    /\ last.res.tag # "Panic"
    /\ \E s \in StreamArgs : Returns("read_until", s, ReadUntil(content, offset, s))

CallReadHeader ==
    /\ last.res.tag # "Panic"
    /\ \E r \in ReadHeader(content, offset) : Returns("read_header", <<>>, r)

NextStream == CallCurrent \/ CallReadString \/ CallReadUntil \/ CallReadHeader

SpecStream == InitStream /\ [][NextStream]_vars

(***************************************************************************)
(* Paths (std::path), for paths whose components are plain names: no "."   *)
(* or ".." component, no doubled or trailing separator.                    *)
(***************************************************************************)
\* The index of the last c in p, or 0.
LastIndexOf(p, c) ==
    IF \E i \in 1..Len(p) : p[i] = c
    THEN CHOOSE i \in 1..Len(p) : p[i] = c /\ \A j \in (i + 1)..Len(p) : p[j] # c
    ELSE 0

\* Path::file_name: the last component, None for a path without one.
FileName(p) ==
    IF LastIndexOf(p, "/") = Len(p) THEN None
    ELSE Some(SubSeq(p, LastIndexOf(p, "/") + 1, Len(p)))

\* Path::with_extension: the file name cut at its last "." (unless that is
\* its first byte), then "." and ext; a path without a file name is kept.
WithExtension(p, ext) ==
    LET name == FileName(p)
        dot == LastIndexOf(name.val, ".")
        stem == IF dot > 1 THEN SubSeq(name.val, 1, dot - 1) ELSE name.val
    IN  IF ~name.some THEN p
        ELSE SubSeq(p, 1, LastIndexOf(p, "/")) \o stem \o <<".">> \o ext

\* PathBuf::push of a relative path: a separator is added unless the buffer
\* is empty or ends with one.
Push(base, name) ==
    IF base = <<>> \/ base[Len(base)] = "/" THEN base \o name
    ELSE base \o <<"/">> \o name

\* Path::parent: None for the empty path and for the root.
Parent(p) ==
    IF p = <<>> \/ p = <<"/">> THEN None
    ELSE IF LastIndexOf(p, "/") = 0 THEN Some(<<>>)
    ELSE IF LastIndexOf(p, "/") = 1 THEN Some(<<"/">>)
    ELSE Some(SubSeq(p, 1, LastIndexOf(p, "/") - 1))

Html == <<"h", "t", "m", "l">>

\* The alias main gives the document: --alias, pushed with the input's file
\* name under the extension html.  None when the unwrap of file_name fails.
AliasPath(a) ==
    LET name == FileName(WithExtension(a.input, Html))
    IN  IF name.some THEN Some(Push(a.alias, name.val)) ELSE None

(***************************************************************************)
(* The main specification: one run of main.  pc is the statement main is   *)
(* at; status is "running" until main returns ("ok", "err") or panics, and *)
(* pc then stays at the statement that ended the run.  dirs and file are   *)
(* what the run has created on disk.                                       *)
(***************************************************************************)
Init ==
    /\ args \in [input : InputPaths, output : OutputPaths, alias : AliasPaths]
    /\ pc = "read_to_string"
    /\ status = "running"
    /\ content = <<>>
    /\ offset = 0
    /\ last = [op |-> "new", arg |-> <<>>, pre |-> 0, res |-> Ok(<<>>, 0)]
    /\ metadata = NoMetadata
    /\ buf = <<>>
    /\ dirs = {}
    /\ file = None
    /\ printed = NoError
    /\ IdleFmt

\* let content = std::fs::read_to_string(input)?; Stream::new(&content)
MainReadToString ==
    /\ status = "running" /\ pc = "read_to_string"
    /\ \/ /\ status' = "err"
          /\ UNCHANGED <<content, pc>>
       \/ /\ \E c \in Docs : content' = c
          /\ pc' = "read_header"
          /\ UNCHANGED status
    /\ UNCHANGED <<offset, last, args, metadata, buf, dirs, file, printed, fmtVars>>

MainReadHeaderIgnoresError ==
    /\ status = "running" /\ pc = "read_header"
    /\ \E r \in ReadHeader(content, offset) :
          /\ offset' = r.offset
          /\ last' = [op |-> "read_header", arg |-> <<>>, pre |-> offset, res |-> r]
          /\ metadata' = r.meta
          /\ pc' = "render"
          /\ UNCHANGED <<status, printed>>
    /\ UNCHANGED <<content, args, buf, dirs, file, fmtVars>>

\* match stream.read_header(): Ok goes on to render, Err is printed and
\* returned as an io::Error.
MainReadHeader ==
    /\ status = "running" /\ pc = "read_header"
    /\ \E r \in ReadHeader(content, offset) :
          /\ offset' = r.offset
          /\ last' = [op |-> "read_header", arg |-> <<>>, pre |-> offset, res |-> r]
          /\ IF r.tag = "Ok"
             THEN /\ metadata' = r.meta
                  /\ pc' = "render"
                  /\ UNCHANGED <<status, printed>>
             ELSE /\ status' = (IF r.tag = "Err" THEN "err" ELSE "panic")
                  /\ printed' = r.err
                  /\ UNCHANGED <<metadata, pc>>
    /\ UNCHANGED <<content, args, buf, dirs, file, fmtVars>>

MainRenderWithoutAlias ==
    /\ status = "running" /\ pc = "render"
    /\ buf' = FormatHeader(metadata) \o Current(content, offset).val
    /\ pc' = "create_dir_all"
    /\ UNCHANGED <<metadata, status, streamVars, args, dirs, file, printed, fmtVars>>

\* The Ok arm up to the buffer: the alias is set, then the header and the
\* rest of the stream are appended to an empty String.
MainRender ==
    /\ status = "running" /\ pc = "render"
    /\ IF AliasPath(args).some /\ Current(content, offset).tag = "Ok"
       THEN /\ metadata' = [metadata EXCEPT !.alias = AliasPath(args)]
            /\ buf' = FormatHeader(metadata') \o Current(content, offset).val
            /\ pc' = "create_dir_all"
            /\ UNCHANGED status
       ELSE /\ status' = "panic"
            /\ UNCHANGED <<metadata, buf, pc>>
    /\ UNCHANGED <<streamVars, args, dirs, file, printed, fmtVars>>

\* std::fs::create_dir_all(output.parent().unwrap())?
MainCreateDirAll ==
    /\ status = "running" /\ pc = "create_dir_all"
    /\ IF ~Parent(args.output).some
       THEN status' = "panic" /\ UNCHANGED <<dirs, pc>>
       ELSE \/ /\ Parent(args.output).val # <<>>
               /\ status' = "err"
               /\ UNCHANGED <<dirs, pc>>
            \/ /\ dirs' = (IF Parent(args.output).val = <<>> THEN dirs
                           ELSE dirs \cup {Parent(args.output).val})
               /\ pc' = "write"
               /\ UNCHANGED status
    /\ UNCHANGED <<streamVars, args, metadata, buf, file, printed, fmtVars>>

\* std::fs::write(output, buf)?; Ok(())
MainWrite ==
    /\ status = "running" /\ pc = "write"
    /\ \/ status' = "err" /\ UNCHANGED file
       \/ status' = "ok" /\ file' = Some(buf)
    /\ UNCHANGED <<pc, streamVars, args, metadata, buf, dirs, printed, fmtVars>>

Next == MainReadToString \/ MainReadHeader \/ MainRender \/ MainCreateDirAll \/ MainWrite

Spec == Init /\ [][Next]_vars

(***************************************************************************)
(* Claims about the Stream, checked under SpecStream.                      *)
(***************************************************************************)
\* d occurs in c at byte index i.
OccursAt(c, d, i) == i + Len(d) <= Len(c) /\ SubSeq(c, i + 1, i + Len(d)) = d

\* C2: when the delimiter d occurs at or after the cursor, read_until(d)
\* returns exactly the bytes between the cursor and the first occurrence of
\* d, leaves the cursor at the start of that occurrence (d is not consumed),
\* and a read_string(d) called next succeeds, returns d and advances the
\* cursor by len(d).
C2_ReadUntilStopsAtMatch ==
    (/\ last.op = "read_until"
     /\ \E i \in last.pre..Len(content) : OccursAt(content, last.arg, i))
    => LET k == CHOOSE i \in last.pre..Len(content) :
                    /\ OccursAt(content, last.arg, i)
                    /\ \A j \in last.pre..(i - 1) : ~OccursAt(content, last.arg, j)
       IN  /\ last.res.tag = "Ok"
           /\ last.res.val = SubSeq(content, last.pre + 1, k)
           /\ offset = k
           /\ ReadString(content, offset, last.arg) = Ok(last.arg, k + Len(last.arg))

\* A read_until that skipped a non-empty slice from a cursor inside the
\* buffer and stopped before a non-empty delimiter.
C2_Witness ==
    /\ last.op = "read_until"
    /\ last.res.tag = "Ok"
    /\ last.pre > 0
    /\ last.res.val # <<>>
    /\ last.arg # <<>>
    /\ offset + Len(last.arg) < Len(content)

\* C3: read_string(s) succeeds, returning s and advancing by len(s), when
\* the len(s) bytes at the cursor equal s; it fails with "unexpected end of
\* input" exactly when fewer than len(s) bytes remain; and it fails with the
\* mismatch error exactly when at least len(s) bytes remain and differ from s.
C3_ReadStringThreeOutcomes ==
    last.op = "read_string" =>
        LET s == last.arg
            remaining == Len(content) - last.pre
            atCursor == SubSeq(content, last.pre + 1, last.pre + Len(s))
            endOfInput == last.res.tag = "Err" /\ last.res.err.fmt = MsgEndOfInput
            mismatch == last.res.tag = "Err" /\ last.res.err.fmt = MsgMismatch
        IN  /\ (remaining >= Len(s) /\ atCursor = s)
                => (last.res = Ok(s, last.pre + Len(s)) /\ offset = last.pre + Len(s))
            /\ endOfInput <=> remaining < Len(s)
            /\ mismatch <=> (remaining >= Len(s) /\ atCursor # s)

\* C4: after any sequence of calls the cursor is within the buffer and on a
\* character boundary, so current() does not fail; and current() leaves the
\* cursor where it was.
C4_OffsetIsBoundary ==
    /\ offset \in 0..Len(content)
    /\ IsCharBoundary(content, offset)
    /\ Current(content, offset).tag = "Ok"
    /\ last.res.tag # "Panic"
    /\ last.op = "current" => (offset = last.pre /\ last.res.val = SubSeq(content, offset + 1, Len(content)))

\* current() called with the cursor strictly inside a buffer that holds a
\* multi-byte character.
C4_Witness ==
    /\ last.op = "current"
    /\ offset > 0
    /\ offset < Len(content)
    /\ \E i \in 1..Len(content) : content[i] \in ContBytes

(***************************************************************************)
(* The formatter specification: format_header and print_tags_as_toml       *)
(* applied to any Metadata with a short title and any short tags string.   *)
(***************************************************************************)
TagAlphabet == {"a", "b", ",", " "}

RECURSIVE TagStrings(_)
TagStrings(n) ==
    IF n = 0 THEN {<<>>}
    ELSE LET shorter == TagStrings(n - 1)
         IN  shorter \cup {Append(s, b) : s \in shorter, b \in TagAlphabet}

Options(S) == {None} \cup {Some(x) : x \in S}

FmtInputs ==
    [title : {<<"a">>, <<"C3", "A9">>},
     date : Options({<<"2", "0", "2", "0", "-", "0", "2", "-", "0", "1">>}),
     tags : Options(TagStrings(MaxTagLen)),
     alias : Options({<<"o", "l", "d", "/", "a", ".", "h", "t", "m", "l">>})]

InitFormat ==
    /\ fmtIn \in FmtInputs
    /\ fmtOut = [op |-> "none", tags |-> <<>>, text |-> <<>>]
    /\ content = <<>>
    /\ offset = 0
    /\ last = [op |-> "new", arg |-> <<>>, pre |-> 0, res |-> Ok(<<>>, 0)]
    /\ IdleMain

CallPrintTagsAsToml ==
    /\ fmtIn.tags.some
    /\ fmtOut' = [op |-> "print_tags_as_toml",
                  tags |-> TagVec(fmtIn.tags.val),
                  text |-> PrintTagsAsToml(fmtIn.tags.val)]
    /\ UNCHANGED <<fmtIn, streamVars, mainVars>>

CallFormatHeader ==
    /\ fmtOut' = [op |-> "format_header", tags |-> <<>>, text |-> FormatHeader(fmtIn)]
    /\ UNCHANGED <<fmtIn, streamVars, mainVars>>

NextFormat == CallPrintTagsAsToml \/ CallFormatHeader

SpecFormat == InitFormat /\ [][NextFormat]_vars

(***************************************************************************)
(* Claims about the formatter, checked under SpecFormat.                   *)
(***************************************************************************)
TagSep == <<",", " ">>

\* The lines format_header writes before the taxonomy section.
FieldLines(m) ==
    TitleLine(m.title)
    \o (IF m.date.some THEN DateLine(m.date.val) ELSE <<>>)
    \o (IF m.alias.some THEN AliasLine(m.alias.val) ELSE <<>>)

\* The header of m with the given strings as the quoted elements of tags.
HeaderWithElements(m, elems) ==
    Opening \o FieldLines(m) \o Taxonomies
    \o <<"t", "a", "g", "s", " ", "=", " ", "[">>
    \o Join([i \in 1..Len(elems) |-> <<"\"">> \o elems[i] \o <<"\"">>], <<",">>)
    \o <<"]", "\n">> \o Closing

\* C9 as claimed: when tags is present, format_header renders [taxonomies]
\* and tags = [...], whose elements are the tags in their original order,
\* each trimmed of leading and trailing whitespace and double-quoted, with
\* a bare comma between them.
C9_ElementsAreTrimmed ==
    (fmtOut.op = "format_header" /\ fmtIn.tags.some /\ Trim(fmtIn.tags.val) = fmtIn.tags.val)
    => LET v == TagVec(fmtIn.tags.val)
       IN  fmtOut.text = HeaderWithElements(fmtIn, [i \in 1..Len(v) |-> Trim(v[i])])

\* C9 as amended: the elements are the pieces of the tags string between
\* its ", " separators, each verbatim (not trimmed), double-quoted, in their
\* original order, with a bare comma between them.
C9_ElementsAreVerbatim ==
    (fmtOut.op = "format_header" /\ fmtIn.tags.some)
    => fmtOut.text = HeaderWithElements(fmtIn, TagVec(fmtIn.tags.val))

\* A header rendered for tags of two or more elements, one of them with
\* whitespace of its own, in a string that has none at its ends.
C9_Witness ==
    /\ fmtOut.op = "format_header"
    /\ fmtIn.tags.some
    /\ Trim(fmtIn.tags.val) = fmtIn.tags.val
    /\ Len(TagVec(fmtIn.tags.val)) >= 2
    /\ \E i \in 1..Len(TagVec(fmtIn.tags.val)) :
           Trim(TagVec(fmtIn.tags.val)[i]) # TagVec(fmtIn.tags.val)[i]
    /\ fmtIn.alias.some
    /\ fmtIn.date.some

RECURSIVE CountSeparators(_, _)
\* The number of non-overlapping occurrences of ", " in t from index i on,
\* counted left to right.
CountSeparators(t, i) ==
    IF i + 2 > Len(t) THEN 0
    ELSE IF t[i + 1] = "," /\ t[i + 2] = " " THEN 1 + CountSeparators(t, i + 2)
    ELSE CountSeparators(t, i + 1)

\* C10: print_tags_as_toml(t) splits t only on ", ": the list has (number
\* of non-overlapping occurrences of ", " in t) + 1 elements, no element
\* holds a separator, joining the elements with ", " gives t back, and the
\* rendered text holds each element verbatim between quotes.
C10_SplitsOnCommaSpaceOnly ==
    fmtOut.op = "print_tags_as_toml" =>
        LET t == fmtIn.tags.val
            v == fmtOut.tags
        IN  /\ Len(v) = CountSeparators(t, 0) + 1
            /\ Join(v, TagSep) = t
            /\ \A i \in 1..Len(v) : \A j \in 0..Len(v[i]) : ~OccursAt(v[i], TagSep, j)
            /\ (\A j \in 0..Len(t) : ~OccursAt(t, TagSep, j)) => v = <<t>>
            /\ fmtOut.text =
                   <<"[">> \o Join([i \in 1..Len(v) |-> <<"\"">> \o v[i] \o <<"\"">>], <<",">>) \o <<"]">>
            /\ Len(fmtOut.text) = Len(t) + Len(v) + 3

\* A tags string holding a separator, a comma without a space and a blank
\* that belongs to no separator.
C10_Witness ==
    /\ fmtOut.op = "print_tags_as_toml"
    /\ Len(fmtOut.tags) = 2
    /\ \E i \in 1..Len(fmtOut.tags) : \E j \in 1..Len(fmtOut.tags[i]) : fmtOut.tags[i][j] = ","
    /\ \E i \in 1..Len(fmtOut.tags) : \E j \in 1..Len(fmtOut.tags[i]) : fmtOut.tags[i][j] = " "

(***************************************************************************)
(* Claims about read_header and main, checked under Spec.                  *)
(***************************************************************************)
\* The rest of the stream, as main appends it to the header.
Rest == SubSeq(content, offset + 1, Len(content))

\* C1 as claimed: for every input "---\n<block>\n---<body>" whose block
\* decodes to a Metadata, what main writes is the rendered header followed
\* at once by <body>, byte for byte: current() is exactly <body> after
\* read_header.
C1_BodyIsForwarded ==
    \A b \in Blocks, d \in Bodies :
        (/\ file.some
         /\ content = Wrap(b, d)
         /\ \E r \in Decode(b) : r.ok)
        => /\ Current(content, offset).val = d
           /\ file.val = FormatHeader(metadata) \o d

\* C5 as claimed: whenever read_header returns Ok, the buffer starts with
\* "---" and holds a later "---" that another "---" follows at once.
C5_ThirdMarkerFollowsSecond ==
    (last.op = "read_header" /\ last.res.tag = "Ok")
    => /\ OccursAt(content, Marker, 0)
       /\ \E i \in 3..Len(content) :
              OccursAt(content, Marker, i) /\ OccursAt(content, Marker, i + 3)

\* C5 as amended: whenever read_header returns Ok, the buffer starts with
\* "---" and holds a second "---" at or after byte 3; the first such
\* occurrence closes the block and the cursor is left right behind it.
C5_TwoMarkers ==
    (last.op = "read_header" /\ last.res.tag = "Ok")
    => /\ OccursAt(content, Marker, 0)
       /\ \E i \in 3..Len(content) :
              /\ OccursAt(content, Marker, i)
              /\ \A j \in 3..(i - 1) : ~OccursAt(content, Marker, j)
              /\ offset = i + 3

\* read_header returned Ok on a buffer in which no marker follows another.
C5_Witness ==
    /\ last.op = "read_header"
    /\ last.res.tag = "Ok"
    /\ \A i \in 0..Len(content) :
           ~(OccursAt(content, Marker, i) /\ OccursAt(content, Marker, i + 3))
    /\ offset < Len(content)

\* C6: read_header fails at the first failing step, with that step's error
\* and no Metadata.  Without "---" at the start: a BadSyntax of read_string,
\* cursor unmoved.  With it but no "---" after byte 3: the "not found"
\* BadSyntax of read_until.  With both markers: the third step cannot fail,
\* so the only failure is WrongYaml, which an empty block always gives.
C6_FailsAtFirstFailingStep ==
    last.op = "read_header" =>
        LET r == last.res
            closed == \E i \in 3..Len(content) : OccursAt(content, Marker, i)
        IN  /\ r.tag # "Panic"
            /\ ~OccursAt(content, Marker, 0)
                => /\ r.tag = "Err" /\ r.err.kind = "BadSyntax"
                   /\ r.err.fmt \in {MsgMismatch, MsgEndOfInput}
                   /\ r.err.args[1] = Marker
                   /\ offset = 0
            /\ (OccursAt(content, Marker, 0) /\ ~closed)
                => /\ r.tag = "Err"
                   /\ r.err = BadSyntax(MsgNotFound, <<Marker>>)
            /\ (OccursAt(content, Marker, 0) /\ closed)
                => (r.tag = "Ok" \/ (r.tag = "Err" /\ r.err.kind = "WrongYaml"))
            /\ OccursAt(content, Marker \o Marker, 0)
                => (r.tag = "Err" /\ r.err.kind = "WrongYaml")
            /\ r.tag = "Err"
                => (r.meta = NoMetadata /\ metadata = NoMetadata /\ printed = r.err)

\* read_until failed inside read_header, on a document that opens a block.
C6_Witness ==
    /\ last.op = "read_header"
    /\ last.res.err.fmt = MsgNotFound
    /\ Len(content) > 6
    /\ status = "err"

\* C7: nothing is created or written unless read_to_string and read_header
\* succeeded, and a failure of either ends main with an error; whatever is
\* written is a complete header, from "+++\n" to the closing "+++" on its
\* own line, followed by the rest of the stream, and its directory exists.
C7_NoOutputOnFailure ==
    /\ pc \in {"read_to_string", "read_header"} => (dirs = {} /\ file = None)
    /\ (last.op = "read_header" /\ last.res.tag = "Err") => (status = "err" /\ pc = "read_header")
    /\ (dirs # {} \/ file.some) => (last.op = "read_header" /\ last.res.tag = "Ok")
    /\ file.some =>
        LET n == Len(file.val) - Len(Rest)
        IN  /\ n >= Len(Opening) + Len(Closing)
            /\ SubSeq(file.val, 1, Len(Opening)) = Opening
            /\ SubSeq(file.val, n - Len(Closing), n) = <<"\n">> \o Closing
            /\ SubSeq(file.val, n + 1, Len(file.val)) = Rest
            /\ file.val = FormatHeader(metadata) \o Rest
            /\ Parent(args.output).val # <<>> => Parent(args.output).val \in dirs

\* A run that created the directory and wrote a header with every field.
C7_Witness ==
    /\ status = "ok"
    /\ file.some
    /\ dirs # {}
    /\ metadata.date.some /\ metadata.tags.some /\ metadata.alias.some
    /\ Rest # <<>>

\* The block read by read_header set title and nothing else.
OnlyTitle ==
    /\ last.op = "read_header" /\ last.res.tag = "Ok"
    /\ ~last.res.meta.date.some /\ ~last.res.meta.tags.some /\ ~last.res.meta.alias.some

\* C8 as claimed: for a document whose block sets only title, the output
\* holds exactly one field line, the title line, between the "+++" markers,
\* and no [taxonomies] section.
C8_TitleIsTheOnlyLine ==
    (file.some /\ OnlyTitle)
    => file.val = Opening \o TitleLine(last.res.meta.title) \o Closing \o Rest

\* C8 as amended: between the markers the output holds the title line and
\* then the aliases line main adds to every document, and nothing else.
C8_TitleAndAliasLines ==
    (file.some /\ OnlyTitle)
    => file.val = Opening \o TitleLine(last.res.meta.title)
                   \o AliasLine(AliasPath(args).val) \o Closing \o Rest

\* A document with only a title was written, with a body after the header.
C8_Witness ==
    /\ file.some
    /\ OnlyTitle
    /\ Rest # <<>>
    /\ args.alias # <<>>

=============================================================================
